---- MODULE Spec2Model ----
(***************************************************************************)
(* Model of sbca_wrapper/libindy.py: the _Libindy singleton that bridges   *)
(* asyncio futures to the callback-based native library Libindy, and the   *)
(* module function initialize_libindy.                                     *)
(*                                                                         *)
(* Two threads act on the state: the thread that owns the asyncio event    *)
(* loop (it runs run_command, initialize_libindy, the callers' cancel and  *)
(* the callbacks the loop was handed) and the native library's thread (it  *)
(* runs the trampoline built by create_callback).                          *)
(***************************************************************************)
EXTENDS Integers, Sequences, FiniteSets, TLC

(***************************************************************************)
(* Bounds of the model.                                                    *)
(***************************************************************************)
MaxHandles == 2    \* run_command allocates at most this many handles
MaxQueue == 2      \* callbacks waiting in the event loop at any time
MaxInit == 2       \* native calls of one kind made by initialize_libindy

(***************************************************************************)
(* Values.                                                                 *)
(***************************************************************************)
\* "None" of Python, for the names and handles the program holds.
None == "None"

\* lib_names of _load_library: platform key -> file name.
lib_names ==
    [p \in {"darwin", "linux", "linux2", "win32"} |->
        CASE p = "darwin" -> "libindy.dylib"
          [] p = "linux"  -> "libindy.so"
          [] p = "linux2" -> "libindy.so"
          [] p = "win32"  -> "indy.dll"]

\* dict.get(key) of Python: the value, or None when the key is absent.
DictGet(d, k, default) == IF k \in DOMAIN d THEN d[k] ELSE default

\* The entry points the program names.
AsyncCommand == "op_a"
CommandNames ==
    {AsyncCommand, "op_nonexistent", "indy_set_runtime_config",
     "indy_set_logger", "indy_get_current_error"}

\* What a current build of Libindy exports: not "op_nonexistent".
FullExports ==
    {AsyncCommand, "indy_set_runtime_config", "indy_set_logger",
     "indy_get_current_error"}

\* The systems the program is started on: a platform key and the Libindy
\* file installed there, if any.
Installed(exports) == [present |-> TRUE, exports |-> exports]
NotInstalled == [present |-> FALSE, exports |-> {}]
Systems ==
    { <<"linux", Installed(FullExports)>>,
      <<"linux2", Installed(FullExports \ {"indy_get_current_error"})>>,
      <<"win32", Installed(FullExports \ {"indy_set_logger"})>>,
      <<"darwin", NotInstalled>>,
      <<"freebsd13", Installed(FullExports)>>,
      <<"freebsd13", NotInstalled>> }

\* The process image itself, which dlopen(NULL) hands back: it exports no
\* entry point of Libindy.
MainProgramExports == {}

\* IndyErrorCode of sbca_wrapper/error.py: the known status codes and names.
Success == 0
IndyErrorCode == {Success, 112}
CodeName(code) ==
    CASE code = Success -> "Success"
      [] code = 112 -> "CommonInvalidState"

\* The status codes the native library may report: the known ones and one
\* outside the enumeration.
NativeCodes == IndyErrorCode \cup {999}

\* The error-detail blobs indy_get_current_error may hand back: a JSON
\* object, written here as its sequence of <<key, value>> members.
DetailBlobs ==
    { <<>>, << <<"message", "no wallet">>, <<"backtrace", "bt">> >> }

\* The detail the library holds after reporting a status: one of the blobs
\* after a failure of a known code, the only case in which it is fetched.
DetailsOf(code) ==
    IF code \in IndyErrorCode \ {Success} THEN DetailBlobs ELSE {<<>>}

\* The raw trailing values a callback may carry (with a status other than
\* success the model lets it carry none: the program never reads them), and
\* the transform_fn arguments of create_callback: no transform, or one that
\* decodes every byte string to text.
RawPayloads == { <<>>, <<"b_x", "b_y">> }
PayloadsOf(code) == IF code = Success THEN RawPayloads ELSE { <<>> }
Transforms == {None, "decode"}
Decode(v) == CASE v = "b_x" -> "x" [] v = "b_y" -> "y" [] OTHER -> v

\* The runtime_config arguments of initialize_libindy: absent, an empty
\* (falsy) string, a non-empty one.
RuntimeConfigs == {None, "", "cfg"}

\* Handles a callback may carry: the ones run_command can allocate and one
\* that is never allocated.
Handles == 0 .. MaxHandles

(***************************************************************************)
(* State.                                                                  *)
(***************************************************************************)
VARIABLES
    sys_platform,    \* sys.platform
    installed,       \* the Libindy file of the system: [present, exports]
    module_state,    \* "start", "loaded" (Libindy = _Libindy() done), "failed"
    library,         \* _Libindy._library: [loaded, exports]
    initialized,     \* _Libindy.initialized
    command_handle,  \* the next value of the counter _Libindy._command_handle
    futures,         \* _Libindy._futures: handle -> [loop, future]
    fut,             \* the Future objects run_command created, by handle
    loop_queue,      \* what call_soon_threadsafe handed to the event loop
    pc,              \* the loop thread: "idle", or "in_native" inside line 99
    cur,             \* the handle run_command is calling the library with
    config_sent,     \* native calls of indy_set_runtime_config so far
    logger_set,      \* native calls of indy_set_logger so far
    last             \* the last operation: what it was and how it ended

vars ==
    <<sys_platform, installed, module_state, library, initialized,
      command_handle, futures, fut, loop_queue, pc, cur, config_sent,
      logger_set, last>>

env == <<sys_platform, installed>>

MainLoop == "loop"

\* asyncio.Future: state, result, exception; held says that run_command
\* returned the future, so that the caller has a reference to it.
NoResult == [kind |-> "unset", values |-> <<>>]
PyNone == [kind |-> "None", values |-> <<>>]
PyTuple(vs) == [kind |-> "tuple", values |-> vs]
NoError == [code |-> -1, message |-> None, backtrace |-> None]
NewFuture ==
    [state |-> "PENDING", result |-> NoResult, exception |-> NoError,
     held |-> FALSE]

\* IndyError(code, message, backtrace) of sbca_wrapper/error.py.
IndyError(code, message, backtrace) ==
    [code |-> code, message |-> message, backtrace |-> backtrace]

Done(op, outcome, native) ==
    [op |-> op, outcome |-> outcome, native |-> native]

(***************************************************************************)
(* Loading the library.                                                    *)
(***************************************************************************)
NoLibrary == [loaded |-> FALSE, exports |-> {}]

\* ctypes.CDLL(name): with name None it is dlopen(NULL), which succeeds and
\* gives the handle of the process image; with a file name it loads the
\* installed file or raises OSError.
CDLL(name) ==
    IF name = None
    THEN [raised |-> None,
          handle |-> [loaded |-> TRUE, exports |-> MainProgramExports]]
    ELSE IF installed.present
    THEN [raised |-> None,
          handle |-> [loaded |-> TRUE, exports |-> installed.exports]]
    ELSE [raised |-> "OSError", handle |-> NoLibrary]

\* _Libindy._load_library: lib_names.get(sys.platform) never raises
\* KeyError, so the except KeyError arm is dead and both arms re-raise.
load_library == CDLL(DictGet(lib_names, sys_platform, None))

\* _Libindy.__new__ run by the module's last line, Libindy = _Libindy().
New ==
    /\ module_state = "start"
    /\ LET r == load_library
       IN  /\ module_state' = IF r.raised = None THEN "loaded" ELSE "failed"
           /\ library' = r.handle
           /\ last' = Done("load_library",
                           IF r.raised = None THEN "returned" ELSE r.raised,
                           <<>>)
    /\ UNCHANGED <<env, initialized, command_handle, futures, fut,
                   loop_queue, pc, cur, config_sent, logger_set>>

(***************************************************************************)
(* Resolving commands.                                                     *)
(***************************************************************************)
\* A faulty implements_command, which finds every name in a loaded library.
implements_command_always(command_name) ==
    [raised |-> IF ~library.loaded THEN "RuntimeError" ELSE None,
     value |-> library.loaded]

\* _Libindy.implements_command: RuntimeError without a library, else
\* hasattr(_library, command_name).
implements_command(command_name) ==
    IF ~library.loaded
    THEN [raised |-> "RuntimeError", value |-> FALSE]
    ELSE [raised |-> None, value |-> command_name \in library.exports]

\* A faulty _get_command, which hands back whatever getattr gives and
\* raises nothing for an entry point the library lacks.
get_command_unchecked(command_name) == None

\* _Libindy._get_command: the exception it raises, or None when it returns
\* the entry point.
get_command(command_name) ==
    LET r == implements_command(command_name)
    IN  IF r.raised # None THEN r.raised
        ELSE IF ~r.value THEN "NotImplementedError"
        ELSE None

(***************************************************************************)
(* Classifying a status code.                                              *)
(***************************************************************************)
\* json.loads of a JSON object: the dict of its members, a later member
\* overriding an earlier one of the same key.
json_loads(blob) ==
    [k \in {blob[i][1] : i \in DOMAIN blob} |->
        LET at == {i \in DOMAIN blob : blob[i][1] = k}
            hi == CHOOSE i \in at : \A j \in at : j <= i
        IN  blob[hi][2]]

\* A faulty line 214, which never reads the detail's message.
error_message_code_name(indy_code, error_details) == CodeName(indy_code)

\* The message of the IndyError, line 214.
error_message(indy_code, error_details) ==
    DictGet(error_details, "message", CodeName(indy_code))

\* A faulty _get_indy_error, which wraps any status without looking it up
\* in IndyErrorCode.
get_indy_error_unclassified(code, blob) ==
    [raised |-> None, error |-> IndyError(code, None, None), native |-> <<>>]

\* _Libindy._get_indy_error(code), with blob what indy_get_current_error
\* writes to c_error: the exception raised or the IndyError returned, and
\* the native entry points invoked.
get_indy_error(code, blob) ==
    IF code \notin IndyErrorCode
    THEN [raised |-> "UnknownCodeError", error |-> NoError, native |-> <<>>]
    ELSE IF code = Success
    THEN [raised |-> None, error |-> IndyError(Success, None, None),
          native |-> <<>>]
    ELSE IF get_command("indy_get_current_error") # None
    THEN [raised |-> get_command("indy_get_current_error"),
          error |-> NoError, native |-> <<>>]
    ELSE LET error_details == json_loads(blob)
         IN  [raised |-> None,
              error |-> IndyError(code, error_message(code, error_details),
                                  DictGet(error_details, "backtrace", None)),
              native |-> <<"indy_get_current_error">>]

(***************************************************************************)
(* run_command.                                                            *)
(***************************************************************************)
\* A faulty line 85, which lets every command through.
not_initialized_unchecked == FALSE

\* Line 85: the guard that refuses a command before initialization.
not_initialized == ~initialized

\* A faulty line 102, which ignores the immediate status.
is_error_response_ignored(response_code) == FALSE

\* Line 102: whether the immediate status takes the error path.
is_error_response(response_code) == response_code # Success

\* A faulty line 95, which reads the counter without advancing it.
next_command_handle_stuck == command_handle

\* Line 95: the counter after next(_Libindy._command_handle) has returned
\* its current value.
next_command_handle == command_handle + 1

\* A faulty run_command, which calls the library first and registers the
\* future only once the native call is back.
futures_register_late(h, loop) == futures

\* Line 96: the map with the new future registered under its handle, as it
\* is when line 99 enters the library.
futures_register(h, loop) ==
    (h :> [loop |-> loop, future |-> h]) @@ futures

\* Lines 84-99 of run_command, up to the point where the native entry point
\* is entered: the two refusals, or the future, the handle and the entry of
\* the map, and then the call of the library with the handle.
run_command(command_name) ==
    /\ module_state = "loaded"
    /\ pc = "idle"
    /\ IF not_initialized
       THEN /\ last' = Done("run_command", "RuntimeError", <<>>)
            /\ UNCHANGED <<command_handle, futures, fut, pc, cur>>
       ELSE IF get_command(command_name) # None
       THEN /\ last' = Done("run_command",
                            get_command(command_name), <<>>)
            /\ UNCHANGED <<command_handle, futures, fut, pc, cur>>
       ELSE /\ command_handle < MaxHandles
            /\ LET h == command_handle
               IN  /\ command_handle' = next_command_handle
                   /\ fut' = (h :> NewFuture) @@ fut
                   /\ futures' = futures_register(h, MainLoop)
                   /\ cur' = h
                   /\ pc' = "in_native"
                   /\ last' = Done("run_command", "calling",
                                   <<command_name>>)
    /\ UNCHANGED <<env, module_state, library, initialized, loop_queue,
                   config_sent, logger_set>>

\* Lines 99-108 of run_command: the native entry point returns
\* response_code, and blob is what indy_get_current_error would report.
run_command_return(response_code, blob) ==
    /\ pc = "in_native"
    /\ pc' = "idle"
    /\ cur' = -1
    /\ IF is_error_response(response_code)
       THEN LET e == get_indy_error(response_code, blob)
            IN  IF e.raised # None
                THEN /\ fut' = fut
                     /\ last' = Done("run_command", e.raised,
                                     last.native \o e.native)
                ELSE /\ fut' = [fut EXCEPT ![cur].state = "FINISHED",
                                           ![cur].exception = e.error,
                                           ![cur].held = TRUE]
                     /\ last' = Done("run_command", "returned",
                                     last.native \o e.native)
       ELSE /\ fut' = [fut EXCEPT ![cur].held = TRUE]
            /\ last' = Done("run_command", "returned",
                            last.native)
    /\ UNCHANGED <<env, module_state, library, initialized, command_handle,
                   futures, loop_queue, config_sent, logger_set>>

\* The caller cancels a future run_command gave it: Future.cancel() changes
\* a pending future only.
cancel(h) ==
    /\ pc = "idle"
    /\ h \in DOMAIN fut
    /\ fut[h].held
    /\ fut[h].state = "PENDING"
    /\ fut' = [fut EXCEPT ![h].state = "CANCELLED"]
    /\ last' = Done("cancel", "returned", <<>>)
    /\ UNCHANGED <<env, module_state, library, initialized, command_handle,
                   futures, loop_queue, pc, cur, config_sent, logger_set>>

(***************************************************************************)
(* The callback, on the native thread and then on the event loop.          *)
(***************************************************************************)
\* Line 157: the trailing values after transform_fn.
apply_transform(transform_fn, response_values) ==
    IF transform_fn # None
    THEN [i \in DOMAIN response_values |-> Decode(response_values[i])]
    ELSE response_values

NoEntry == [loop |-> None, future |-> -1]

\* A faulty line 167, which makes up an entry for a handle the map lacks.
futures_getitem_default(h) ==
    [raised |-> None,
     entry |-> IF h \in DOMAIN futures THEN futures[h]
               ELSE [loop |-> MainLoop, future |-> h]]

\* Line 167: _Libindy._futures[command_handle], KeyError without an entry.
futures_getitem(h) ==
    IF h \in DOMAIN futures
    THEN [raised |-> None, entry |-> futures[h]]
    ELSE [raised |-> "KeyError", entry |-> NoEntry]

\* A faulty line 167, which takes the event loop of the calling thread.
recorded_loop_of_caller(entry) == "loop of the native thread"

\* Line 167: the loop of the entry, the one run_command recorded.
recorded_loop(entry) == entry.loop

\* _callback_fn of create_callback followed by _indy_callback, both run by
\* the native thread: transform, classify, look the loop up in the map and
\* hand _indy_loop_callback with its arguments to that loop.
callback_fn(command_handle_arg, response_code, raw, transform_fn, blob) ==
    /\ module_state = "loaded"
    /\ command_handle > 0
    /\ LET response_values == apply_transform(transform_fn, raw)
           e == get_indy_error(response_code, blob)
       IN  IF e.raised # None
           THEN /\ last' = Done("callback",
                                e.raised, e.native)
                /\ UNCHANGED loop_queue
           ELSE IF futures_getitem(command_handle_arg).raised # None
           THEN /\ last' = Done("callback",
                                futures_getitem(command_handle_arg).raised,
                                e.native)
                /\ UNCHANGED loop_queue
           ELSE /\ Len(loop_queue) < MaxQueue
                /\ loop_queue' = Append(loop_queue,
                      [loop |-> recorded_loop(
                           futures_getitem(command_handle_arg).entry),
                       handle |-> command_handle_arg,
                       response |-> e.error,
                       values |-> response_values])
                /\ last' = Done("callback",
                                "scheduled", e.native)
    /\ UNCHANGED <<env, module_state, library, initialized, command_handle,
                   futures, fut, pc, cur, config_sent, logger_set>>

\* A faulty line 174, which reads the entry and leaves it in the map.
futures_pop_keeping(command_handle_arg) == futures

\* A faulty line 174, which empties the map.
futures_pop_all(command_handle_arg) == <<>>

\* Line 174: _futures.pop(command_handle), the map afterwards.
futures_pop(command_handle_arg) ==
    [k \in DOMAIN futures \ {command_handle_arg} |-> futures[k]]

\* A faulty line 181, which makes a tuple of no values too.
result_value_always_tuple(response_values) == PyTuple(response_values)

\* Line 181: the value the future is fulfilled with.
result_value(response_values) ==
    IF response_values = <<>> THEN PyNone ELSE PyTuple(response_values)

\* _Libindy._indy_loop_callback, run by the event loop for the oldest call
\* it was handed: pop the entry (KeyError without one), then fulfil or fail
\* the future unless it was cancelled; set_result and set_exception raise
\* InvalidStateError on a future that is already done.
indy_loop_callback ==
    /\ pc = "idle"
    /\ loop_queue # <<>>
    /\ loop_queue' = Tail(loop_queue)
    /\ LET call == Head(loop_queue)
           h == call.handle
       IN  IF h \notin DOMAIN futures
           THEN /\ last' = Done("loop_callback", "KeyError", <<>>)
                /\ UNCHANGED <<futures, fut>>
           ELSE LET f == futures[h].future
                IN  /\ futures' = futures_pop(h)
                    /\ IF fut[f].state = "CANCELLED"
                       THEN /\ fut' = fut
                            /\ last' = Done("loop_callback",
                                            "discarded", <<>>)
                       ELSE IF fut[f].state = "FINISHED"
                       THEN /\ fut' = fut
                            /\ last' = Done("loop_callback",
                                            "InvalidStateError", <<>>)
                       ELSE IF call.response.code = Success
                       THEN /\ fut' = [fut EXCEPT
                                 ![f].state = "FINISHED",
                                 ![f].result = result_value(call.values)]
                            /\ last' = Done("loop_callback",
                                            "set_result", <<>>)
                       ELSE /\ fut' = [fut EXCEPT
                                 ![f].state = "FINISHED",
                                 ![f].exception = call.response]
                            /\ last' = Done("loop_callback",
                                            "set_exception", <<>>)
    /\ UNCHANGED <<env, module_state, library, initialized, command_handle,
                   pc, cur, config_sent, logger_set>>

(***************************************************************************)
(* initialize_libindy.                                                     *)
(***************************************************************************)
\* A faulty line 230, which lets a second initialization through.
already_initialized_unchecked == FALSE

\* Line 230: the guard that refuses a second initialization.
already_initialized == initialized

\* Line 237: a runtime config that is given (truthy in Python).
config_given(runtime_config) == runtime_config \notin {None, ""}

\* initialize_libindy(runtime_config): refuse when initialized; forward the
\* config with sync_run_command when given; register the logger with
\* sync_run_command; set the flag.  sync_run_command raises
\* NotImplementedError for an entry point the library lacks, and the status
\* the entry point returns is dropped.
initialize_libindy(runtime_config) ==
    /\ module_state = "loaded"
    /\ pc = "idle"
    /\ config_sent < MaxInit
    /\ logger_set < MaxInit
    /\ IF already_initialized
       THEN /\ last' = Done("initialize", "RuntimeError", <<>>)
            /\ UNCHANGED <<initialized, config_sent, logger_set>>
       ELSE IF config_given(runtime_config)
               /\ get_command("indy_set_runtime_config") # None
       THEN /\ last' = Done("initialize",
                            get_command("indy_set_runtime_config"), <<>>)
            /\ UNCHANGED <<initialized, config_sent, logger_set>>
       ELSE LET sent == IF config_given(runtime_config)
                        THEN <<"indy_set_runtime_config">> ELSE <<>>
            IN  /\ config_sent' = config_sent + Len(sent)
                /\ IF get_command("indy_set_logger") # None
                   THEN /\ last' = Done("initialize",
                                        get_command("indy_set_logger"), sent)
                        /\ UNCHANGED <<initialized, logger_set>>
                   ELSE /\ logger_set' = logger_set + 1
                        /\ initialized' = TRUE
                        /\ last' = Done("initialize", "returned",
                                        sent \o <<"indy_set_logger">>)
    /\ UNCHANGED <<env, module_state, library, command_handle, futures, fut,
                   loop_queue, pc, cur>>

(***************************************************************************)
(* The specification.                                                      *)
(***************************************************************************)
Init ==
    /\ \E system \in Systems :
          /\ sys_platform = system[1]
          /\ installed = system[2]
    /\ module_state = "start"
    /\ library = NoLibrary
    /\ initialized = FALSE
    /\ command_handle = 0
    /\ futures = <<>>
    /\ fut = <<>>
    /\ loop_queue = <<>>
    /\ pc = "idle"
    /\ cur = -1
    /\ config_sent = 0
    /\ logger_set = 0
    /\ last = Done("import", "returned", <<>>)

Next ==
    \/ New
    \/ \E runtime_config \in RuntimeConfigs :
          initialize_libindy(runtime_config)
    \/ \E command_name \in CommandNames : run_command(command_name)
    \/ \E response_code \in NativeCodes :
          \E blob \in DetailsOf(response_code) :
             run_command_return(response_code, blob)
    \/ \E h \in Handles : cancel(h)
    \/ \E h \in Handles, response_code \in NativeCodes,
          transform_fn \in Transforms :
          \E raw \in PayloadsOf(response_code),
             blob \in DetailsOf(response_code) :
             callback_fn(h, response_code, raw, transform_fn, blob)
    \/ indy_loop_callback

Spec == Init /\ [][Next]_vars

(***************************************************************************)
(* Properties.                                                             *)
(***************************************************************************)
KnownErrorCodes == IndyErrorCode \ {Success}

\* The future registered under handle h.
FutureOf(h) == fut[futures[h].future]

\* C1: when run_command was called after initialization on an implemented
\* command, the native entry point returns a known nonzero status and
\* run_command returns, the future it returns is already failed with an
\* error of that same code; it was still pending when the entry point
\* returned, so no callback had any part in it.
C1_SyncErrorStep(response_code, blob) ==
    ( /\ pc = "in_native"
      /\ last'.outcome = "returned"
      /\ run_command_return(response_code, blob) )
    => /\ fut[cur].state = "PENDING"
       /\ fut'[cur].state = "FINISHED"
       /\ fut'[cur].exception.code = response_code
       /\ fut'[cur].result = NoResult
       /\ fut'[cur].held

\* C1 over every known nonzero status and every error detail.
C1_SyncErrorCompletesFuture ==
    [][\A response_code \in KnownErrorCodes, blob \in DetailBlobs :
          C1_SyncErrorStep(response_code, blob)]_vars

C1_Witness ==
    /\ last.op = "run_command"
    /\ last.outcome = "returned"
    /\ last.native = <<AsyncCommand, "indy_get_current_error">>
    /\ fut[command_handle - 1].state = "FINISHED"
    /\ fut[command_handle - 1].exception.code = 112

\* C2: the map holds no entry for a call that has already been resolved
\* with a result or an error (a map has one entry per handle at most); so
\* after the synchronous-error path of run_command the handle is gone.
C2_NoStaleEntries ==
    \A h \in DOMAIN futures : FutureOf(h).state # "FINISHED"

\* C3: run_command while not initialized raises RuntimeError and changes
\* nothing: counter, map and futures are as before and no native entry
\* point was invoked.
C3_NotInitializedStep(command_name) ==
    (~initialized /\ run_command(command_name))
    => /\ last'.outcome = "RuntimeError"
       /\ last'.native = <<>>
       /\ UNCHANGED <<command_handle, futures, fut, loop_queue, pc,
                      initialized, config_sent, logger_set>>

\* C3 over every command name.
C3_NotInitializedChangesNothing ==
    [][\A command_name \in CommandNames :
          C3_NotInitializedStep(command_name)]_vars

C3_Witness ==
    /\ module_state = "loaded"
    /\ ~initialized
    /\ AsyncCommand \in library.exports
    /\ last.op = "run_command"
    /\ last.outcome = "RuntimeError"
    /\ command_handle = 0

\* The call the event loop runs next, and whether its handle has an entry.
NextCall == Head(loop_queue)
NextCallRegistered == loop_queue # <<>> /\ NextCall.handle \in DOMAIN futures

\* C4: a callback for a registered call whose future is cancelled is
\* delivered without an error: on the native thread a known status is
\* classified (the library exporting indy_get_current_error when the status
\* is not success) and the call is handed to the loop; on the loop
\* _indy_loop_callback raises nothing, leaves every future as it is and
\* removes the entry of that handle.
C4_CancelledNativeStep(h, response_code, raw, transform_fn, blob) ==
    callback_fn(h, response_code, raw, transform_fn, blob)
    => /\ last'.outcome = "scheduled"
       /\ UNCHANGED <<futures, fut>>

C4_CancelledLoopStep ==
    ( /\ NextCallRegistered
      /\ FutureOf(NextCall.handle).state = "CANCELLED"
      /\ last'.op = "loop_callback"
      /\ indy_loop_callback )
    => /\ last'.outcome = "discarded"
       /\ fut' = fut
       /\ NextCall.handle \notin DOMAIN futures'
       /\ \A h \in DOMAIN futures \ {NextCall.handle} :
             h \in DOMAIN futures' /\ futures'[h] = futures[h]

CancelledRegistered ==
    {h \in DOMAIN futures : FutureOf(h).state = "CANCELLED"}
Classifiable ==
    IF "indy_get_current_error" \in library.exports
    THEN IndyErrorCode ELSE {Success}

\* C4: both halves of the delivery, over every status the library in use
\* can classify, every payload, transform and error detail.
C4_CancelledCallbackDiscarded ==
    [][/\ C4_CancelledLoopStep
       /\ last'.op = "callback" =>
             \A h \in CancelledRegistered, response_code \in Classifiable,
                transform_fn \in Transforms :
                \A raw \in PayloadsOf(response_code),
                   blob \in DetailsOf(response_code) :
                   C4_CancelledNativeStep(h, response_code, raw,
                                          transform_fn, blob)]_vars

C4_Witness ==
    /\ last.op = "loop_callback"
    /\ last.outcome = "discarded"
    /\ \E h \in DOMAIN fut :
          /\ fut[h].state = "CANCELLED"
          /\ h \notin DOMAIN futures

\* C5: a callback with status 0 for a registered call whose future is still
\* pending fulfils the future, never fails it: the values handed to the
\* loop are the raw values when no transform is given and the transformed
\* ones otherwise, in order, and the future's result is the tuple of those
\* values, or None when there are none.
C5_SuccessNativeStep(h, raw, transform_fn) ==
    callback_fn(h, Success, raw, transform_fn, <<>>)
    => LET queued == loop_queue'[Len(loop_queue')]
       IN  /\ queued.handle = h
           /\ queued.response.code = Success
           /\ transform_fn = None => queued.values = raw
           /\ (transform_fn = "decode" /\ raw = <<"b_x", "b_y">>)
                 => queued.values = <<"x", "y">>
           /\ raw = <<>> => queued.values = <<>>

C5_SuccessLoopStep ==
    ( /\ NextCallRegistered
      /\ FutureOf(NextCall.handle).state = "PENDING"
      /\ NextCall.response.code = Success
      /\ last'.op = "loop_callback"
      /\ indy_loop_callback )
    => LET f == fut'[futures[NextCall.handle].future]
       IN  /\ last'.outcome = "set_result"
           /\ f.state = "FINISHED"
           /\ f.exception = NoError
           /\ f.result = IF NextCall.values = <<>>
                         THEN [kind |-> "None", values |-> <<>>]
                         ELSE [kind |-> "tuple", values |-> NextCall.values]

\* C5: both halves of the delivery, over every payload and transform.
C5_SuccessFulfilsWithValues ==
    [][/\ C5_SuccessLoopStep
       /\ last'.outcome = "scheduled" =>
             \A h \in DOMAIN futures, raw \in RawPayloads,
                transform_fn \in Transforms :
                C5_SuccessNativeStep(h, raw, transform_fn)]_vars

C5_Witness ==
    /\ last.op = "loop_callback"
    /\ last.outcome = "set_result"
    /\ \E h1, h2 \in DOMAIN fut :
          /\ fut[h1].result = [kind |-> "tuple", values |-> <<"x", "y">>]
          /\ fut[h2].result = [kind |-> "None", values |-> <<>>]

\* C6: a callback with a known nonzero status for a registered call whose
\* future is still pending fails the future, never fulfils it: the error
\* handed to the loop has that status as its code and, as its message, the
\* "message" member of the detail fetched from the library, or the name of
\* the code when the detail has none; the future's exception is that error.
C6_ErrorNativeStep(h, response_code, transform_fn, blob) ==
    callback_fn(h, response_code, <<>>, transform_fn, blob)
    => LET queued == loop_queue'[Len(loop_queue')]
       IN  /\ queued.handle = h
           /\ queued.response.code = response_code
           /\ last'.native = <<"indy_get_current_error">>
           /\ blob = <<>> => queued.response.message = CodeName(response_code)
           /\ blob # <<>> => queued.response.message = "no wallet"

C6_ErrorLoopStep ==
    ( /\ NextCallRegistered
      /\ FutureOf(NextCall.handle).state = "PENDING"
      /\ NextCall.response.code # Success
      /\ last'.op = "loop_callback"
      /\ indy_loop_callback )
    => LET f == fut'[futures[NextCall.handle].future]
       IN  /\ last'.outcome = "set_exception"
           /\ f.state = "FINISHED"
           /\ f.result = NoResult
           /\ f.exception = NextCall.response
           /\ f.exception.code \in KnownErrorCodes

\* C6: both halves of the delivery, over every known nonzero status and
\* every error detail.
C6_ErrorFailsWithDetail ==
    [][/\ C6_ErrorLoopStep
       /\ last'.outcome = "scheduled" =>
             \A h \in DOMAIN futures, response_code \in KnownErrorCodes,
                transform_fn \in Transforms, blob \in DetailBlobs :
                C6_ErrorNativeStep(h, response_code, transform_fn, blob)]_vars

C6_Witness ==
    /\ last.op = "loop_callback"
    /\ last.outcome = "set_exception"
    /\ \E h1, h2 \in DOMAIN fut \ DOMAIN futures :
          /\ fut[h1].exception.code = 112
          /\ fut[h1].exception.message = "no wallet"
          /\ fut[h2].exception.code = 112
          /\ fut[h2].exception.message = "CommonInvalidState"

\* C7: once initialize_libindy has succeeded, every further call raises
\* RuntimeError and makes no native call: the logger is not registered
\* again and the runtime config is not sent again.
C7_SecondInitializeStep(runtime_config) ==
    (initialized /\ initialize_libindy(runtime_config))
    => /\ last'.outcome = "RuntimeError"
       /\ last'.native = <<>>
       /\ UNCHANGED <<initialized, config_sent, logger_set, command_handle,
                      futures, fut, loop_queue>>

\* C7 over every runtime_config argument.
C7_SecondInitializeRefused ==
    [][\A runtime_config \in RuntimeConfigs :
          C7_SecondInitializeStep(runtime_config)]_vars

C7_Witness ==
    /\ initialized
    /\ logger_set = 1
    /\ config_sent = 1
    /\ last.op = "initialize"
    /\ last.outcome = "RuntimeError"

\* C8: for a name the loaded library does not export, implements_command
\* returns False without raising, and run_command on it after
\* initialization raises NotImplementedError with no handle allocated, no
\* entry registered and no native entry point invoked.
NotExported == CommandNames \ library.exports

C8_ProbeIsFalse ==
    module_state = "loaded" =>
       \A command_name \in NotExported :
          implements_command(command_name) =
             [raised |-> None, value |-> FALSE]

C8_UnknownCommandStep(command_name) ==
    (initialized /\ run_command(command_name))
    => /\ last'.outcome = "NotImplementedError"
       /\ last'.native = <<>>
       /\ UNCHANGED <<command_handle, futures, fut, loop_queue, pc,
                      initialized, config_sent, logger_set>>

\* C8: the probe in every state and run_command on every name the loaded
\* library does not export.
C8_UnknownCommandRefused ==
    /\ []C8_ProbeIsFalse
    /\ [][\A command_name \in NotExported :
             C8_UnknownCommandStep(command_name)]_vars

C8_Witness ==
    /\ initialized
    /\ "op_nonexistent" \in NotExported
    /\ implements_command("op_nonexistent").value = FALSE
    /\ last.op = "run_command"
    /\ last.outcome = "NotImplementedError"
    /\ command_handle = 0

\* C9: a future is completed once: by the synchronous-error path of
\* run_command or by one callback, never both; no step tries to complete a
\* future that is already completed (Future.set_result and set_exception
\* raise InvalidStateError when it does).
C9_SingleResolution ==
    ~(last.op = "loop_callback" /\ last.outcome = "InvalidStateError")

\* C10: on a platform key that is not one of darwin, linux, linux2, win32
\* loading fails and no library handle is ever obtained.
C10_UnsupportedPlatformFails ==
    sys_platform \notin DOMAIN lib_names =>
       /\ ~library.loaded
       /\ module_state # "loaded"


\* C11: run_command registers the future before it invokes the native
\* entry point: for as long as the entry point has not returned, the handle
\* of the call in progress has its entry in the map, under the loop of the
\* caller and with a future that exists; so a callback for that handle that
\* fires before run_command has returned finds the entry and is handed to
\* the loop, whatever status the library in use can classify.
C11_RegisteredInNative ==
    pc = "in_native" =>
       /\ cur \in DOMAIN futures
       /\ futures[cur] = [loop |-> MainLoop, future |-> cur]
       /\ cur \in DOMAIN fut

C11_EarlyCallbackStep(response_code, raw, transform_fn, blob) ==
    callback_fn(cur, response_code, raw, transform_fn, blob)
    => /\ last'.outcome = "scheduled"
       /\ loop_queue'[Len(loop_queue')].handle = cur

C11_RegisteredBeforeNativeCall ==
    [][/\ C11_RegisteredInNative'
       /\ (pc = "in_native" /\ last'.op = "callback") =>
             \A response_code \in Classifiable, transform_fn \in Transforms :
                \A raw \in PayloadsOf(response_code),
                   blob \in DetailsOf(response_code) :
                   C11_EarlyCallbackStep(response_code, raw,
                                         transform_fn, blob)]_vars

C11_Witness ==
    /\ pc = "in_native"
    /\ last.op = "callback"
    /\ last.outcome = "scheduled"
    /\ loop_queue # <<>>
    /\ loop_queue[Len(loop_queue)].handle = cur
    /\ fut[cur].state = "PENDING"

\* The outcomes of a step that raised.
RaisedOutcomes == {"KeyError", "UnknownCodeError", "NotImplementedError"}

\* C12: a callback for a handle without an entry raises on the native
\* thread (KeyError at the lookup when the status can be classified, the
\* classification error before it otherwise) and hands nothing to the loop;
\* a resolution for a handle without an entry raises KeyError at the pop;
\* both leave the map, the counter and every future as they were.
C12_NoEntryNativeStep(h, response_code, raw, transform_fn, blob) ==
    callback_fn(h, response_code, raw, transform_fn, blob)
    => /\ last'.outcome \in RaisedOutcomes
       /\ response_code \in Classifiable => last'.outcome = "KeyError"
       /\ UNCHANGED <<futures, command_handle, fut, loop_queue>>

C12_NoEntryLoopStep ==
    ( /\ loop_queue # <<>>
      /\ NextCall.handle \notin DOMAIN futures
      /\ last'.op = "loop_callback"
      /\ indy_loop_callback )
    => /\ last'.outcome = "KeyError"
       /\ UNCHANGED <<futures, command_handle, fut>>

\* The handles a callback step can have been for: the handle of the call
\* it put on the queue when it scheduled one, any handle when it raised.
StepHandles ==
    IF last'.outcome = "scheduled"
    THEN {loop_queue'[i].handle : i \in {Len(loop_queue')} \ {0}}
    ELSE Handles

\* A step that raised KeyError and changed nothing meets C12 whatever its
\* inputs were; every other callback step is compared with each input.
C12_NoEntryFailsUnchanged ==
    [][/\ C12_NoEntryLoopStep
       /\ last'.op = "callback" =>
             \/ /\ last'.outcome = "KeyError"
                /\ UNCHANGED <<futures, command_handle, fut, loop_queue>>
             \/ \A h \in StepHandles \ DOMAIN futures,
                   response_code \in NativeCodes,
                   transform_fn \in Transforms :
                   \A raw \in PayloadsOf(response_code),
                      blob \in DetailsOf(response_code) :
                      C12_NoEntryNativeStep(h, response_code, raw,
                                            transform_fn, blob)]_vars

C12_Witness ==
    /\ last.op = "loop_callback"
    /\ last.outcome = "KeyError"
    /\ futures # <<>>
    /\ \A h \in DOMAIN fut : fut[h].state = "PENDING" => h \in DOMAIN futures

C12_NativeKeyErrorReached ==
    /\ last.op = "callback"
    /\ last.outcome = "KeyError"


\* The thread a step runs on: _callback_fn and _indy_callback are called by
\* the native library on its own thread (lines 154-169); run_command,
\* initialize_libindy and _indy_loop_callback run on the event-loop thread.
ThreadOf(op) == IF op = "callback" THEN "native" ELSE "loop"

\* Whether the step that has just ended read or wrote _Libindy._futures:
\* line 96 of run_command, line 167 of _indy_callback (reached when
\* classification raised nothing) and line 174 of _indy_loop_callback.
TouchedMap(l) ==
    \/ l.op = "run_command" /\ l.outcome = "calling"
    \/ l.op = "callback" /\ l.outcome \in {"KeyError", "scheduled"}
    \/ l.op = "loop_callback"

\* C13: the map is read and written on the event-loop thread only; a
\* callback running on the native thread performs no access to it.
C13_MapOnlyOnLoopThread ==
    TouchedMap(last) => ThreadOf(last.op) = "loop"


\* The call a callback step has just handed to the loop.
Scheduled == loop_queue'[Len(loop_queue')]

\* C14: a callback step of the native thread leaves the map and every
\* future as they were; when it schedules, it appends one call to the queue
\* of the loop that run_command recorded in the entry.  An entry leaves the
\* map, and a future changes otherwise than through run_command or cancel,
\* only in a step of _indy_loop_callback for the oldest scheduled call, on
\* the loop of that handle's entry, and then only for that handle.
C14_CallbackStep ==
    last'.op = "callback" =>
       /\ UNCHANGED <<futures, fut>>
       /\ last'.outcome = "scheduled" =>
             /\ loop_queue' = Append(loop_queue, Scheduled)
             /\ Scheduled.handle \in DOMAIN futures
             /\ Scheduled.loop = futures[Scheduled.handle].loop
       /\ last'.outcome # "scheduled" => loop_queue' = loop_queue

C14_ResolutionStep ==
    ( \/ \E h \in DOMAIN futures : h \notin DOMAIN futures'
      \/ fut' # fut /\ last'.op \notin {"run_command", "cancel"} )
    => /\ last'.op = "loop_callback"
       /\ NextCallRegistered
       /\ NextCall.loop = futures[NextCall.handle].loop
       /\ loop_queue' = Tail(loop_queue)
       /\ DOMAIN futures \ DOMAIN futures' = {NextCall.handle}
       /\ \A f \in DOMAIN fut :
             fut'[f] # fut[f] => f = futures[NextCall.handle].future

C14_CallbackOnlySchedules ==
    [][C14_CallbackStep /\ C14_ResolutionStep]_vars

C14_Witness ==
    /\ pc = "idle"
    /\ last.op = "callback"
    /\ last.outcome = "scheduled"
    /\ Len(loop_queue) = 1
    /\ NextCallRegistered
    /\ NextCall.loop = MainLoop
    /\ FutureOf(NextCall.handle).state = "PENDING"

\* C15: the handle of a call is the value of the counter, which is not
\* negative, is above every handle issued before and was never issued; a
\* run_command that passes its preconditions advances the counter by one,
\* and no other step moves it; the handles issued so far are the numbers
\* below the counter.
C15_AllocationStep ==
    (last'.op = "run_command" /\ last'.outcome = "calling")
    => /\ cur' = command_handle
       /\ cur' >= 0
       /\ cur' \notin DOMAIN fut
       /\ \A h \in DOMAIN fut : h < cur'
       /\ command_handle' = command_handle + 1
       /\ DOMAIN fut' = DOMAIN fut \cup {cur'}

C15_OtherStep ==
    ~(last'.op = "run_command" /\ last'.outcome = "calling")
    => /\ command_handle' = command_handle
       /\ DOMAIN fut' = DOMAIN fut

C15_Issued == DOMAIN fut = 0 .. (command_handle - 1)

C15_HandlesUnique ==
    [][C15_AllocationStep /\ C15_OtherStep /\ C15_Issued']_vars

C15_Witness ==
    /\ last.op = "run_command"
    /\ last.outcome = "calling"
    /\ command_handle = 2
    /\ cur = 1
    /\ DOMAIN fut = {0, 1}
    /\ DOMAIN futures = {0, 1}

\* C16: resolving a handle changes the future and the entry of that handle
\* alone, whichever call was registered first; the future gets the status
\* and the values of the callback that carried its handle: the native step
\* queues its own handle, status and transformed values, and the loop step
\* completes the future of the queued handle with the queued ones.
C16_NativeStep(h, response_code, raw, transform_fn, blob) ==
    callback_fn(h, response_code, raw, transform_fn, blob)
    => /\ Scheduled.handle = h
       /\ Scheduled.response.code = response_code
       /\ Scheduled.values = apply_transform(transform_fn, raw)
       /\ SubSeq(loop_queue', 1, Len(loop_queue)) = loop_queue

C16_LoopStep ==
    ( /\ NextCallRegistered
      /\ last'.op = "loop_callback"
      /\ indy_loop_callback )
    => LET h == NextCall.handle
           f == futures[h].future
       IN  /\ f = h
           /\ \A k \in DOMAIN fut \ {f} : fut'[k] = fut[k]
           /\ DOMAIN futures' = DOMAIN futures \ {h}
           /\ \A k \in DOMAIN futures' : futures'[k] = futures[k]
           /\ last'.outcome = "set_result" =>
                 /\ NextCall.response.code = Success
                 /\ fut'[f].result = result_value(NextCall.values)
           /\ last'.outcome = "set_exception" =>
                 fut'[f].exception = NextCall.response

C16_CallsIndependent ==
    [][/\ C16_LoopStep
       /\ (last'.op = "callback" /\ last'.outcome = "scheduled") =>
             \A h \in DOMAIN futures, response_code \in NativeCodes,
                transform_fn \in Transforms :
                \A raw \in PayloadsOf(response_code),
                   blob \in DetailsOf(response_code) :
                   C16_NativeStep(h, response_code, raw,
                                  transform_fn, blob)]_vars

C16_Witness ==
    /\ last.op = "loop_callback"
    /\ last.outcome \in {"set_result", "set_exception"}
    /\ DOMAIN fut = {0, 1}
    /\ DOMAIN futures = {0}
    /\ fut[0].state = "PENDING"
    /\ fut[1].state = "FINISHED"
    /\ loop_queue # <<>>
    /\ NextCall.handle = 0


(***************************************************************************)
(* Fair scheduling: the native entry point that run_command has called     *)
(* returns (line 99 is a plain function call), and the event loop runs the *)
(* calls handed to it with call_soon_threadsafe (line 168).                *)
(***************************************************************************)
NativeReturns ==
    \E response_code \in NativeCodes :
       \E blob \in DetailsOf(response_code) :
          run_command_return(response_code, blob)

FairSpec ==
    /\ Spec
    /\ WF_vars(NativeReturns)
    /\ WF_vars(indy_loop_callback)

\* The callback of handle h has been delivered: the native thread handed
\* its call to the loop, which has not run it yet.
Delivered(h) ==
    \E i \in 1 .. Len(loop_queue) : loop_queue[i].handle = h

\* C17: under fair scheduling, a registered call whose future is pending
\* and whose callback has been delivered is eventually resolved: its entry
\* is out of the map and its future is completed, unless the caller has
\* cancelled the future in the meantime, in which case the entry is out of
\* the map and the future stays cancelled.
C17_DeliveredEventuallyResolved ==
    \A h \in Handles :
       ( /\ Delivered(h)
         /\ h \in DOMAIN futures
         /\ FutureOf(h).state = "PENDING" )
       ~> ( /\ h \notin DOMAIN futures
            /\ h \in DOMAIN fut
            /\ fut[h].state \in {"FINISHED", "CANCELLED"} )

C17_Witness ==
    /\ last.op = "loop_callback"
    /\ last.outcome = "set_result"
    /\ futures = <<>>
    /\ loop_queue = <<>>
    /\ DOMAIN fut = {0, 1}
    /\ \A h \in DOMAIN fut : fut[h].state = "FINISHED"


\* C18: over any sequence of initialize_libindy calls, those that raise
\* part of the way included, indy_set_runtime_config is called once at
\* most.
C18_ConfigForwardedOnce == config_sent <= 1


\* The status codes outside IndyErrorCode.
UnknownCodes == NativeCodes \ IndyErrorCode

\* C19: a status outside IndyErrorCode cannot be classified.  On the
\* callback path _callback_fn raises before anything is handed to the loop:
\* the queue, the entry and the future of the handle are as before.  On the
\* synchronous path run_command raises instead of returning the future: the
\* future stays pending and never reaches the caller, and the entry that
\* line 96 registered stays in the map.
C19_CallbackStep(h, response_code, raw, transform_fn, blob) ==
    callback_fn(h, response_code, raw, transform_fn, blob)
    => /\ last'.outcome = "UnknownCodeError"
       /\ last'.native = <<>>
       /\ UNCHANGED <<loop_queue, futures, fut, command_handle>>

C19_SyncStep(response_code, blob) ==
    run_command_return(response_code, blob)
    => /\ last'.outcome = "UnknownCodeError"
       /\ UNCHANGED <<loop_queue, futures, fut, command_handle>>
       /\ cur \in DOMAIN futures'
       /\ ~fut'[cur].held

C19_UnknownCodeFails ==
    [][/\ (pc = "in_native" /\ last'.op = "run_command") =>
             \A response_code \in UnknownCodes :
                \A blob \in DetailsOf(response_code) :
                   C19_SyncStep(response_code, blob)
       /\ last'.op = "callback" =>
             \A h \in Handles, response_code \in UnknownCodes,
                transform_fn \in Transforms :
                \A raw \in PayloadsOf(response_code),
                   blob \in DetailsOf(response_code) :
                   C19_CallbackStep(h, response_code, raw,
                                    transform_fn, blob)]_vars

C19_Witness ==
    /\ last.op = "run_command"
    /\ last.outcome = "UnknownCodeError"
    /\ pc = "idle"
    /\ (command_handle - 1) \in DOMAIN futures
    /\ fut[command_handle - 1].state = "PENDING"
    /\ ~fut[command_handle - 1].held

C19_CallbackRaised ==
    /\ last.op = "callback"
    /\ last.outcome = "UnknownCodeError"
    /\ futures # <<>>

\* C20: initialized is False at import; it changes only from False to True,
\* and only in an initialize_libindy call that returned after it had called
\* indy_set_runtime_config (when a config was given, and not otherwise) and
\* then indy_set_logger, both exported by the library; an initialize_libindy
\* call that raised leaves it as it was; no step sets it back to False.
C20_FlagStep ==
    /\ initialized' # initialized =>
          /\ ~initialized
          /\ initialized'
          /\ last'.op = "initialize"
          /\ last'.outcome = "returned"
          /\ last'.native # <<>>
          /\ last'.native[Len(last'.native)] = "indy_set_logger"
          /\ \A i \in DOMAIN last'.native :
                last'.native[i] \in library.exports
          /\ logger_set' = logger_set + 1
    /\ (last'.op = "initialize" /\ last'.outcome # "returned") =>
          initialized' = initialized
    /\ initialized => initialized'

C20_ConfigStep(runtime_config) ==
    ( /\ ~initialized
      /\ initialized'
      /\ initialize_libindy(runtime_config) )
    => IF config_given(runtime_config)
       THEN /\ last'.native = <<"indy_set_runtime_config", "indy_set_logger">>
            /\ config_sent' = config_sent + 1
       ELSE /\ last'.native = <<"indy_set_logger">>
            /\ config_sent' = config_sent

C20_InitializedMonotonic ==
    /\ ~initialized
    /\ [][/\ C20_FlagStep
          /\ \A runtime_config \in RuntimeConfigs :
                C20_ConfigStep(runtime_config)]_vars

C20_Witness ==
    /\ initialized
    /\ last.op = "initialize"
    /\ last.outcome = "returned"
    /\ last.native = <<"indy_set_runtime_config", "indy_set_logger">>
    /\ config_sent = 1
    /\ logger_set = 1

C20_FailedStepReached ==
    /\ ~initialized
    /\ last.op = "initialize"
    /\ last.outcome = "NotImplementedError"
    /\ config_sent = 1

====
